---- MODULE Spec2Model ----
(***************************************************************************)
(* Model of the condition-evaluation core of axum-ote                      *)
(* (src/src/web_server/conditions.rs): EvaluateContext::limit / slice,     *)
(* find_time_range, PricesContext::percentile, Condition::evaluate and     *)
(* Condition::evaluate_all; and of the expression routes built on it       *)
(* (src/src/web_server/mod.rs): the wire form of a condition tree, its     *)
(* parser and serialiser, and the /exp and /builder handlers; of the price *)
(* cache and loader (src/src/web_server/state.rs, src/src/data_loader.rs)  *)
(* under concurrent requests; and of the day pages (graph, optimalizer).   *)
(*                                                                         *)
(* Conventions                                                             *)
(*  - Rust vectors are 0-indexed, TLA+ sequences 1-indexed: element i of a *)
(*    Vec is s[i + 1], and the Rust slice v[a..b] is Slice(v, a, b).       *)
(*  - A Rust panic (failed assert!, slice index out of range) is the       *)
(*    outcome "panic" / [tag |-> "Panic"]; it propagates to the caller.    *)
(*  - Prices are f32 in the code; the model draws them from small naturals *)
(*    (exactly representable, never NaN).  A percentile position/(len-1)   *)
(*    is kept as the exact fraction [num, den]; a threshold is a pair      *)
(*    <<n, d>> standing for n/d with d a power of two (exactly             *)
(*    representable in f32), so for windows of this size the f32           *)
(*    comparison agrees with the exact one.                                *)
(*  - ctx.now is kept as a whole number of hours since an epoch; only      *)
(*    now.hour() and whole-hour shifts are used by the code.               *)
(*  - days is the price cache (AppState::days) and tasks the requests in   *)
(*    flight on it; both stay empty where only the evaluation core or the  *)
(*    expression routes are exercised.                                     *)
(***************************************************************************)
EXTENDS Integers, Sequences, FiniteSets, TLC

VARIABLES prices, now_index, now, pc, call, ret, days, tasks

vars == <<prices, now_index, now, pc, call, ret, days, tasks>>

----------------------------------------------------------------------------
(* Program constants *)

HoursPerDay == 24

(* Bounds of the model *)

MaxDays == 2
TruncHours == 18
MaxPlusMinus == 2
MaxCount == 3
MaxItems == 2
MaxWindow == 2
MaxTasks == 2
MaxCalls == 4

----------------------------------------------------------------------------
(* Generic helpers *)

Min(a, b) == IF a <= b THEN a ELSE b

Slice(v, a, b) == SubSeq(v, a + 1, b)

saturating_sub(a, b) == IF a >= b THEN a - b ELSE 0

\* usize saturates at 2^64 - 1; the operands here are a u32 and an index of
\* the series, so the sum never reaches it.
saturating_add(a, b) == a + b

\* Vec::sort_by(partial_cmp) on values without NaN: ascending, stable.
Insert(s, x) ==
    LET k == Cardinality({j \in 1..Len(s) : s[j] <= x})
    IN  SubSeq(s, 1, k) \o <<x>> \o SubSeq(s, k + 1, Len(s))

RECURSIVE SortAsc(_)
SortAsc(s) ==
    IF s = <<>> THEN <<>>
    ELSE Insert(SortAsc(SubSeq(s, 1, Len(s) - 1)), s[Len(s)])

----------------------------------------------------------------------------
(* Range and Condition values *)

Today == [kind |-> "Today"]
Future == [kind |-> "Future"]
PlusMinusHours(h) == [kind |-> "PlusMinusHours", hours |-> h]
FromTo(f, t) == [kind |-> "FromTo", from |-> f, to |-> t]

And(items) == [kind |-> "And", items |-> items]
Or(items) == [kind |-> "Or", items |-> items]
Not(item) == [kind |-> "Not", item |-> item]
Price(p) == [kind |-> "Price", price |-> p]
Hours(mn, mx) == [kind |-> "Hours", min |-> mn, max |-> mx]
Percentile(v, r) == [kind |-> "Percentile", value |-> v, range |-> r]
Cheap(h, f, t) == [kind |-> "Cheap", hours |-> h, from |-> f, to |-> t]

None == [tag |-> "None"]
Panic == [tag |-> "Panic"]
SomeWindow(ni, ps) == [tag |-> "Some", now_index |-> ni, prices |-> ps]
SomeRange(a, b) == [tag |-> "Some", start |-> a, end |-> b]
SomeSlice(ps) == [tag |-> "Some", prices |-> ps]

----------------------------------------------------------------------------
(* find_time_range, EvaluateContext::slice, EvaluateContext::limit *)

\* Variant of find_time_range whose final test takes end_idx as inclusive.
find_time_range_inclusive(current_hour_idx, from_hour, to_hour) ==
    LET current_day == current_hour_idx \div HoursPerDay
        current_hour == current_hour_idx % HoursPerDay
        from_day_offset == IF from_hour > current_hour
                           THEN current_day - 1 ELSE current_day
        crosses_midnight == from_hour > to_hour
        to_day_offset == IF crosses_midnight
                         THEN from_day_offset + 1 ELSE from_day_offset
        start_isize == from_day_offset * HoursPerDay + from_hour
        end_isize == to_day_offset * HoursPerDay + to_hour
    IN  IF start_isize < 0 \/ end_isize < 0 THEN None
        ELSE IF start_isize <= current_hour_idx /\ current_hour_idx <= end_isize
             THEN SomeRange(start_isize, end_isize + 1)
             ELSE None

\* Variant of find_time_range that always starts the band on the current day.
find_time_range_same_day(current_hour_idx, from_hour, to_hour) ==
    LET current_day == current_hour_idx \div HoursPerDay
        from_day_offset == current_day
        crosses_midnight == from_hour > to_hour
        to_day_offset == IF crosses_midnight
                         THEN from_day_offset + 1 ELSE from_day_offset
        start_isize == from_day_offset * HoursPerDay + from_hour
        end_isize == to_day_offset * HoursPerDay + to_hour
    IN  IF start_isize < 0 \/ end_isize < 0 THEN None
        ELSE IF start_isize <= current_hour_idx /\ current_hour_idx < end_isize
             THEN SomeRange(start_isize, end_isize)
             ELSE None

find_time_range(current_hour_idx, from_hour, to_hour) ==
    LET current_day == current_hour_idx \div HoursPerDay
        current_hour == current_hour_idx % HoursPerDay
        from_day_offset == IF from_hour > current_hour
                           THEN current_day - 1 ELSE current_day
        crosses_midnight == from_hour > to_hour
        to_day_offset == IF crosses_midnight
                         THEN from_day_offset + 1 ELSE from_day_offset
        start_isize == from_day_offset * HoursPerDay + from_hour
        end_isize == to_day_offset * HoursPerDay + to_hour
    IN  IF start_isize < 0 \/ end_isize < 0 THEN None
        ELSE IF start_isize <= current_hour_idx /\ current_hour_idx < end_isize
             THEN SomeRange(start_isize, end_isize)
             ELSE None

slice(ps, ni, from, to) ==
    LET range == find_time_range(ni, from, to)
    IN  IF range.tag = "None" THEN None
        ELSE IF range.end > Len(ps) THEN None
        ELSE SomeSlice(Slice(ps, range.start, range.end))

\* v[a..b] panics unless a <= b <= len.
SliceOk(v, a, b) == a <= b /\ b <= Len(v)

\* Range::Today that always takes the first day of the series
limit_today_first_day(ps, ni) ==
    LET start == 0
    IN  IF ~SliceOk(ps, start, start + HoursPerDay) THEN Panic
        ELSE SomeWindow(ni - start, Slice(ps, start, start + HoursPerDay))

\* Range::Today
limit_today(ps, ni) ==
    LET start == (ni \div HoursPerDay) * HoursPerDay
    IN  IF ~SliceOk(ps, start, start + HoursPerDay) THEN Panic
        ELSE SomeWindow(ni - start, Slice(ps, start, start + HoursPerDay))

\* Range::Future
limit_future(ps, ni) ==
    IF ~SliceOk(ps, ni, Len(ps)) THEN Panic
    ELSE SomeWindow(0, Slice(ps, ni, Len(ps)))

\* Range::PlusMinusHours(hours)
limit_plus_minus_hours(ps, ni, hours) ==
    LET start == saturating_sub(ni, hours)
        end == saturating_add(saturating_add(ni, 1), hours)
    IN  IF ~SliceOk(ps, start, end) THEN Panic
        ELSE SomeWindow(hours, Slice(ps, start, end))

\* Range::FromTo whose band also takes the hour at its end
limit_from_to_closed(ps, ni, from, to) ==
    IF ~(from < to) THEN Panic
    ELSE
    LET start_of_day == (ni \div HoursPerDay) * HoursPerDay
        start_of_range == saturating_add(start_of_day, from)
        end_of_range == saturating_add(start_of_day, to)
    IN  IF ni < start_of_range THEN None
        ELSE IF ni - start_of_range > end_of_range - start_of_range THEN None
        ELSE IF ~SliceOk(ps, start_of_range, end_of_range) THEN Panic
        ELSE SomeWindow(ni - start_of_range,
                        Slice(ps, start_of_range, end_of_range))

\* Range::FromTo(from, to)
limit_from_to(ps, ni, from, to) ==
    IF ~(from < to) THEN Panic
    ELSE
    LET start_of_day == (ni \div HoursPerDay) * HoursPerDay
        start_of_range == saturating_add(start_of_day, from)
        end_of_range == saturating_add(start_of_day, to)
    IN  IF ni < start_of_range THEN None
        ELSE IF ni - start_of_range >= end_of_range - start_of_range THEN None
        ELSE IF ~SliceOk(ps, start_of_range, end_of_range) THEN Panic
        ELSE SomeWindow(ni - start_of_range,
                        Slice(ps, start_of_range, end_of_range))

limit(ps, ni, range) ==
    CASE range.kind = "Today" -> limit_today(ps, ni)
      [] range.kind = "Future" -> limit_future(ps, ni)
      [] range.kind = "PlusMinusHours" -> limit_plus_minus_hours(ps, ni, range.hours)
      [] range.kind = "FromTo" -> limit_from_to(ps, ni, range.from, range.to)

----------------------------------------------------------------------------
(* PricesContext::percentile *)

Ratio(n, d) == [tag |-> "Ok", num |-> n, den |-> d]

\* Variant of PositionEq: 0-based index of the last element equal to x.
PositionEqLast(s, x) ==
    LET hits == {k \in 1..Len(s) : s[k] = x}
    IN  (CHOOSE k \in hits : \A j \in hits : j <= k) - 1

\* iter().position(pred): 0-based index of the first element satisfying it.
PositionEq(s, x) ==
    LET hits == {k \in 1..Len(s) : s[k] = x}
    IN  (CHOOSE k \in hits : \A j \in hits : k <= j) - 1

\* Variant of percentile that ranks the target in the window as given,
\* without sorting a copy first.
percentile_unsorted(w) ==
    IF Len(w.prices) = 0 THEN Panic
    ELSE IF ~(w.now_index < Len(w.prices)) THEN Panic
    ELSE IF Len(w.prices) = 1 THEN Ratio(1, 1)
    ELSE LET target_price == w.prices[w.now_index + 1]
             position == PositionEq(w.prices, target_price)
         IN  Ratio(position, Len(w.prices) - 1)

\* Variant of percentile that ranks the only price of a window lowest.
percentile_single_lowest(w) ==
    IF Len(w.prices) = 0 THEN Panic
    ELSE IF ~(w.now_index < Len(w.prices)) THEN Panic
    ELSE IF Len(w.prices) = 1 THEN Ratio(0, 1)
    ELSE LET target_price == w.prices[w.now_index + 1]
             sorted == SortAsc(w.prices)
             position == PositionEq(sorted, target_price)
         IN  Ratio(position, Len(w.prices) - 1)

\* Variant of percentile without the check of now_index (only indexing
\* the window checks it).
percentile_unchecked_index(w) ==
    IF Len(w.prices) = 0 THEN Panic
    ELSE IF Len(w.prices) = 1 THEN Ratio(1, 1)
    ELSE IF ~(w.now_index < Len(w.prices)) THEN Panic
    ELSE LET target_price == w.prices[w.now_index + 1]
             sorted == SortAsc(w.prices)
             position == PositionEq(sorted, target_price)
         IN  Ratio(position, Len(w.prices) - 1)

percentile(w) ==
    IF Len(w.prices) = 0 THEN Panic
    ELSE IF ~(w.now_index < Len(w.prices)) THEN Panic
    ELSE IF Len(w.prices) = 1 THEN Ratio(1, 1)
    ELSE LET target_price == w.prices[w.now_index + 1]
             sorted == SortAsc(w.prices)
             position == PositionEq(sorted, target_price)
         IN  Ratio(position, Len(w.prices) - 1)

\* percentile() <= value, value = v[1] / v[2]
RatioLeq(r, v) == r.num * v[2] <= v[1] * r.den

----------------------------------------------------------------------------
(* Condition::evaluate and Condition::evaluate_all *)

Bool(b) == IF b THEN "true" ELSE "false"

\* Variant of PositionGreater comparing with <= instead of <.
PositionGreaterOrEqual(s, x) ==
    LET hits == {k \in 1..Len(s) : x <= s[k]}
    IN  IF hits = {} THEN Len(s)
        ELSE (CHOOSE k \in hits : \A j \in hits : k <= j) - 1

\* prices.iter().position(|price| actual_price < *price).unwrap_or(len)
PositionGreater(s, x) ==
    LET hits == {k \in 1..Len(s) : x < s[k]}
    IN  IF hits = {} THEN Len(s)
        ELSE (CHOOSE k \in hits : \A j \in hits : k <= j) - 1

\* Variant of evaluate_cheap that looks for the first dearer price in the
\* band as it stands, without sorting it.
evaluate_cheap_unsorted(ps, ni, hours, from, to) ==
    LET band == slice(ps, ni, from, to)
    IN  IF band.tag = "Some"
        THEN LET actual_price == ps[ni + 1]
                 actual_price_position == PositionGreater(band.prices, actual_price)
             IN  Bool(actual_price_position <= hours)
        ELSE "false"

evaluate_cheap(ps, ni, hours, from, to) ==
    LET band == slice(ps, ni, from, to)
    IN  IF band.tag = "Some"
        THEN LET sorted == SortAsc(band.prices)
                 actual_price == ps[ni + 1]
                 actual_price_position == PositionGreater(sorted, actual_price)
             IN  Bool(actual_price_position <= hours)
        ELSE "false"

\* Variant of evaluate_percentile that unwraps the window instead of
\* matching on it.
evaluate_percentile_unwrap(ps, ni, value, range) ==
    LET w == limit(ps, ni, range)
    IN  IF w.tag = "Some"
        THEN LET p == percentile(w)
             IN  IF p.tag = "Panic" THEN "panic" ELSE Bool(RatioLeq(p, value))
        ELSE "panic"

evaluate_percentile(ps, ni, value, range) ==
    LET w == limit(ps, ni, range)
    IN  CASE w.tag = "Some" ->
                LET p == percentile(w)
                IN  IF p.tag = "Panic" THEN "panic" ELSE Bool(RatioLeq(p, value))
          [] w.tag = "None" -> "false"
          [] w.tag = "Panic" -> "panic"

\* Variant of Condition::Price that requires the price to be below the
\* threshold.
evaluate_price_strict(price, ps, ni) == Bool(ps[ni + 1] < price)

\* Condition::Price(price)
evaluate_price(price, ps, ni) == Bool(ps[ni + 1] <= price)

\* Variant of Condition::Hours that excludes the hour max.
evaluate_hours_half_open(mn, mx, t) ==
    LET hour == t % HoursPerDay
    IN  Bool(mn <= hour /\ hour < mx)

\* Condition::Hours(min, max)
evaluate_hours(mn, mx, t) ==
    LET hour == t % HoursPerDay
    IN  Bool(mn <= hour /\ hour <= mx)

RECURSIVE evaluate(_, _, _, _)
RECURSIVE all(_, _, _, _)
RECURSIVE any(_, _, _, _)

\* Iterator::all: stops at the first child that is not true.
all(items, ps, ni, t) ==
    IF items = <<>> THEN "true"
    ELSE LET r == evaluate(Head(items), ps, ni, t)
         IN  IF r = "true" THEN all(Tail(items), ps, ni, t) ELSE r

\* Iterator::any: stops at the first child that is not false.
any(items, ps, ni, t) ==
    IF items = <<>> THEN "false"
    ELSE LET r == evaluate(Head(items), ps, ni, t)
         IN  IF r = "false" THEN any(Tail(items), ps, ni, t) ELSE r

\* Variant of evaluate_and without the guard on the empty list.
evaluate_and_vacuous(items, ps, ni, t) == all(items, ps, ni, t)

\* And(items) if items.len() > 0 => all(..); And(_) => false
evaluate_and(items, ps, ni, t) ==
    IF Len(items) > 0 THEN all(items, ps, ni, t) ELSE "false"

\* Or(items) if items.len() > 0 => any(..); Or(_) => false
evaluate_or(items, ps, ni, t) ==
    IF Len(items) > 0 THEN any(items, ps, ni, t) ELSE "false"

evaluate(c, ps, ni, t) ==
    CASE c.kind = "And" -> evaluate_and(c.items, ps, ni, t)
      [] c.kind = "Or" -> evaluate_or(c.items, ps, ni, t)
      [] c.kind = "Not" ->
            LET r == evaluate(c.item, ps, ni, t)
            IN  IF r = "panic" THEN "panic" ELSE Bool(r = "false")
      [] c.kind = "Price" -> evaluate_price(c.price, ps, ni)
      [] c.kind = "Hours" -> evaluate_hours(c.min, c.max, t)
      [] c.kind = "Percentile" -> evaluate_percentile(ps, ni, c.value, c.range)
      [] c.kind = "Cheap" -> evaluate_cheap(ps, ni, c.hours, c.from, c.to)

AllOk(bools) == [tag |-> "Ok", values |-> bools]

\* evaluate_all that keeps the clock of the caller for every index
evaluate_all_fixed_clock(c, ps, ni, t) ==
    LET each == [i \in 1..Len(ps) |-> evaluate(c, ps, i - 1, t)]
    IN  IF \E i \in 1..Len(ps) : each[i] = "panic" THEN Panic
        ELSE AllOk([i \in 1..Len(ps) |-> each[i] = "true"])

evaluate_all(c, ps, ni, t) ==
    LET start_time == t - ni
        each == [i \in 1..Len(ps) |-> evaluate(c, ps, i - 1, start_time + (i - 1))]
    IN  IF \E i \in 1..Len(ps) : each[i] = "panic" THEN Panic
        ELSE AllOk([i \in 1..Len(ps) |-> each[i] = "true"])

-----------------------------------------------------------------------------
(* Wire form of a condition tree: json5 text of the serde representation   *)
(* of Vec<Condition>.  A text is modelled by the JSON5 value it denotes    *)
(* (BadText stands for every text that is no JSON5 document).  Enum        *)
(* variants are externally tagged and lowercased: a unit variant is its    *)
(* name as a string, any other variant an object with the name as its only *)
(* key; tuple variants carry an array, struct variants an object.          *)

JStr(s) == [j |-> "str", s |-> s]
\* a number, as the pair <<numerator, denominator>>
JNum(n) == [j |-> "num", n |-> n]
\* a whole number, and the whole number a JSON number denotes (the numbers
\* the texts considered here give to integer fields and to prices are whole)
JInt(i) == JNum(<<i, 1>>)
IntOf(j) == j.n[1]
JArr(items) == [j |-> "arr", items |-> items]
JObj(key, val) == [j |-> "obj", key |-> key, val |-> val]
JMap(fields) == [j |-> "map", fields |-> fields]
BadText == [j |-> "bad"]

Ok(v) == [tag |-> "Ok", value |-> v]
Err(msg) == [tag |-> "Err", msg |-> msg]

\* marks a value that serde could not build
DeErr == [kind |-> "Err"]
IsErr(x) == x.kind = "Err"
DeVec(items) == [kind |-> "Vec", items |-> items]

\* #[derive(Serialize)] for Range
ser_range(r) ==
    CASE r.kind = "Today" -> JStr("today")
      [] r.kind = "Future" -> JStr("future")
      [] r.kind = "PlusMinusHours" -> JObj("range", JInt(r.hours))
      [] r.kind = "FromTo" -> JObj("fromto", JArr(<<JInt(r.from), JInt(r.to)>>))

IsNums(j, n) ==
    /\ j.j = "arr"
    /\ Len(j.items) = n
    /\ \A i \in 1..n : j.items[i].j = "num"

HasNum(j, field) ==
    /\ field \in DOMAIN j.fields
    /\ j.fields[field].j = "num"

\* #[derive(Deserialize)] for Range
de_range(j) ==
    CASE j.j = "str" ->
            IF j.s = "today" THEN Today
            ELSE IF j.s = "future" THEN Future
            ELSE DeErr
      [] j.j = "obj" ->
            IF j.key = "range" /\ j.val.j = "num" THEN PlusMinusHours(IntOf(j.val))
            ELSE IF j.key = "fromto" /\ IsNums(j.val, 2)
                THEN FromTo(IntOf(j.val.items[1]), IntOf(j.val.items[2]))
            ELSE DeErr
      [] OTHER -> DeErr

RECURSIVE ser_condition(_)
\* #[derive(Serialize)] for Condition
ser_condition(c) ==
    CASE c.kind = "And" ->
            JObj("and", JArr([i \in 1..Len(c.items) |-> ser_condition(c.items[i])]))
      [] c.kind = "Or" ->
            JObj("or", JArr([i \in 1..Len(c.items) |-> ser_condition(c.items[i])]))
      [] c.kind = "Not" -> JObj("not", ser_condition(c.item))
      [] c.kind = "Price" -> JObj("price", JInt(c.price))
      [] c.kind = "Hours" -> JObj("hours", JArr(<<JInt(c.min), JInt(c.max)>>))
      [] c.kind = "Percentile" ->
            JObj("percentile",
                 JMap([value |-> JNum(c.value), range |-> ser_range(c.range)]))
      [] c.kind = "Cheap" ->
            JObj("cheap", JMap([hours |-> JInt(c.hours), from |-> JInt(c.from),
                                to |-> JInt(c.to)]))

RECURSIVE de_condition(_)
RECURSIVE de_vec(_)

\* Deserialize for Vec<Condition>: DeVec of a sequence of conditions, or DeErr
de_vec(j) ==
    IF j.j # "arr" THEN DeErr
    ELSE LET items == [i \in 1..Len(j.items) |-> de_condition(j.items[i])]
         IN  IF \E i \in 1..Len(items) : IsErr(items[i]) THEN DeErr
             ELSE DeVec(items)

\* #[derive(Deserialize)] for Condition
de_condition(j) ==
    IF j.j # "obj" THEN DeErr
    ELSE
    CASE j.key = "and" ->
            LET vec == de_vec(j.val) IN IF IsErr(vec) THEN DeErr ELSE And(vec.items)
      [] j.key = "or" ->
            LET vec == de_vec(j.val) IN IF IsErr(vec) THEN DeErr ELSE Or(vec.items)
      [] j.key = "not" ->
            LET item == de_condition(j.val) IN IF IsErr(item) THEN DeErr ELSE Not(item)
      [] j.key = "price" ->
            IF j.val.j = "num" THEN Price(IntOf(j.val)) ELSE DeErr
      [] j.key = "hours" ->
            IF IsNums(j.val, 2) THEN Hours(IntOf(j.val.items[1]), IntOf(j.val.items[2]))
            ELSE DeErr
      [] j.key = "percentile" ->
            IF j.val.j = "map" /\ HasNum(j.val, "value") /\ "range" \in DOMAIN j.val.fields
            THEN LET range == de_range(j.val.fields["range"])
                 IN  IF IsErr(range) THEN DeErr
                     ELSE Percentile(j.val.fields["value"].n, range)
            ELSE DeErr
      [] j.key = "cheap" ->
            IF j.val.j = "map" /\ HasNum(j.val, "hours") /\ HasNum(j.val, "from")
                               /\ HasNum(j.val, "to")
            THEN Cheap(IntOf(j.val.fields["hours"]), IntOf(j.val.fields["from"]),
                       IntOf(j.val.fields["to"]))
            ELSE DeErr
      [] OTHER -> DeErr

\* json5::from_str::<Vec<Condition>>(text)
from_str(text) ==
    IF text.j = "bad" THEN Err("syntax")
    ELSE LET vec == de_vec(text)
         IN  IF IsErr(vec) THEN Err("data") ELSE Ok(vec.items)

\* json5::to_string(&items)
to_string(items) ==
    Ok(JArr([i \in 1..Len(items) |-> ser_condition(items[i])]))

\* Variant of the parser that passes a lone condition through unwrapped.
condition_try_from_unwrapped(text) ==
    LET items == from_str(text)
    IN  IF items.tag = "Err" THEN items
        ELSE IF Len(items.value) = 1 THEN Ok(items.value[1])
        ELSE Ok(And(items.value))

\* impl TryFrom<&String> for Condition
condition_try_from(text) ==
    LET items == from_str(text)
    IN  IF items.tag = "Err" THEN items
        ELSE Ok(And(items.value))

\* Variant of the serialiser that writes the tree itself as the only item.
string_try_from_any_root(value) == to_string(<<value>>)

\* impl TryFrom<Condition> for String
string_try_from(value) ==
    IF value.kind = "And" THEN to_string(value.items)
    ELSE Err("Other than And is not supported")

-----------------------------------------------------------------------------
(* Editing a tree (Condition::apply_changes, behaviour as specified for    *)
(* applyEdit): follow path through And / Or nodes, then append a default   *)
(* child (extend) or overwrite the fields of a Price / Hours leaf.         *)

Extend(kind) == [edit |-> "extend", kind |-> kind]
SetPrice(p) == [edit |-> "price", price |-> p]
SetHours(mn, mx) == [edit |-> "hours", min |-> mn, max |-> mx]
ChangeRequest(path, change) == [path |-> path, change |-> change]

EditErr(msg) == [kind |-> "Err", msg |-> msg]
Edited(tree, diff, position) ==
    [kind |-> "Edited", tree |-> tree, diff |-> diff, position |-> position]

DefaultChild(kind) ==
    CASE kind = "and" -> And(<<>>)
      [] kind = "or" -> Or(<<>>)
      [] kind = "price" -> Price(0)
      [] kind = "hours" -> Hours(0, 0)

IsList(c) == c.kind \in {"And", "Or"}

apply_here(c, change) ==
    CASE change.edit = "extend" ->
            IF IsList(c)
            THEN LET child == DefaultChild(change.kind)
                 IN  Edited([c EXCEPT !.items = Append(@, child)], child,
                            <<Len(c.items)>>)
            ELSE EditErr("Unsupported combination")
      [] change.edit = "price" ->
            IF c.kind = "Price" THEN Edited(Price(change.price), Price(change.price), <<>>)
            ELSE EditErr("Unsupported combination")
      [] change.edit = "hours" ->
            IF c.kind = "Hours"
            THEN Edited(Hours(change.min, change.max), Hours(change.min, change.max), <<>>)
            ELSE EditErr("Unsupported combination")

RECURSIVE apply_at(_, _, _)
apply_at(c, path, change) ==
    IF path = <<>> THEN apply_here(c, change)
    ELSE IF ~IsList(c) THEN EditErr("Unsupported combination")
    ELSE IF ~(Head(path) < Len(c.items)) THEN EditErr("Index out of bounds")
    ELSE LET sub == apply_at(c.items[Head(path) + 1], Tail(path), change)
         IN  IF IsErr(sub) THEN sub
             ELSE Edited([c EXCEPT !.items[Head(path) + 1] = sub.tree], sub.diff,
                         <<Head(path)>> \o sub.position)

apply_changes(c, form_data) == apply_at(c, form_data.path, form_data.change)

-----------------------------------------------------------------------------
(* HTTP handlers of the expression routes.  A response is its status and a *)
(* body; a String error of a builder handler is sent with status 200.  The *)
(* context is the one state.expression_context() assembles; a series       *)
(* without prices stands for its answer None.                              *)

Response(status, body) == [tag |-> "Response", status |-> status, body |-> body]
Some(v) == [tag |-> "Some", value |-> v]

expression_context_is_none(ps) == Len(ps) = 0

\* GET /exp?exp=...
condition_handler(exp, ps, ni, t) ==
    LET expression == condition_try_from(exp)
    IN  IF expression.tag = "Err"
        THEN Response(400, "Expression is not valid")
        ELSE IF expression_context_is_none(ps)
        THEN Response(500, "Error creating expression context")
        ELSE LET result == evaluate(expression.value, ps, ni, t)
             IN  IF result = "panic" THEN Panic
                 ELSE [tag |-> "Response", status |-> 200, body |-> "json",
                       result |-> result, input |-> expression.value]

\* query.exp.as_ref().map(|exp| Condition::try_from(exp)), with None read
\* as the empty And
query_condition(exp) ==
    IF exp.tag = "None" THEN Ok(And(<<>>))
    ELSE condition_try_from(exp.value)

\* GET /builder?exp=...
builder_handler(exp, ps, ni, t) ==
    LET condition == query_condition(exp)
    IN  IF condition.tag = "Err"
        THEN Response(200, "Error parsing expression")
        ELSE IF expression_context_is_none(ps)
        THEN Response(200, "Error creating expression context")
        ELSE LET result == evaluate(condition.value, ps, ni, t)
             IN  IF result = "panic" THEN Panic
                 ELSE [tag |-> "Response", status |-> 200, body |-> "html",
                       result |-> result, condition |-> condition.value]

\* POST /builder?exp=... with a ChangeRequest form
builder_update_handler(exp, form_data) ==
    LET condition == query_condition(exp)
    IN  IF condition.tag = "Err"
        THEN Response(200, "Error parsing expression")
        ELSE LET changed == apply_changes(condition.value, form_data)
             IN  IF IsErr(changed) THEN Response(200, changed.msg)
                 ELSE LET text == string_try_from(changed.tree)
                      IN  IF text.tag = "Err" THEN Panic
                          ELSE [tag |-> "Response", status |-> 200, body |-> "html",
                                location |-> text.value, diff |-> changed.diff,
                                position |-> changed.position]

----------------------------------------------------------------------------
(* Inputs: price series, ranges, bands and condition trees *)

\* Price of hour i (0-based) for each series shape: a strictly rising ramp
\* (the series of the unit tests), a strictly falling one, and a sawtooth
\* in which prices repeat.
PriceAt(shape, i) ==
    CASE shape = "ramp" -> i
      [] shape = "down" -> 100 - i
      [] shape = "saw" -> (i * 7) % 5

Shapes == {"ramp", "down", "saw"}

\* Whole days, and series whose last day is cut short.
SeriesLens ==
    {HoursPerDay * d : d \in 1..MaxDays}
        \cup {HoursPerDay * d - TruncHours : d \in 2..MaxDays}

Series(shape, len) == [k \in 1..len |-> PriceAt(shape, k - 1)]

BandHours == {0, 2, 3, 22, 23, 24}

\* Hours by which the clock's hour of day is ahead of now_index: none for
\* the rising and the sawtooth series (the clock of expression_context),
\* nine for the falling one (a context built by hand).
ClockSkew(shape) == IF shape = "down" THEN 9 ELSE 0

\* PricesContext values built by hand (as the unit tests do): a prefix of
\* the series with any index, valid or not.
HandWindows(ps) ==
    {SomeWindow(k, SubSeq(ps, 1, n)) : n \in 0..MaxWindow, k \in 0..MaxWindow}

Ranges ==
    {Today, Future}
        \cup {PlusMinusHours(h) : h \in 0..MaxPlusMinus}
        \cup {FromTo(f, t) : f \in BandHours, t \in BandHours}

Values == {<<0, 1>>, <<1, 2>>, <<1, 1>>}

Thresholds == {0, 2, 30}

Leaves ==
    {Price(p) : p \in Thresholds}
        \cup {Hours(1, 3), Hours(0, 23), Hours(22, 2)}
        \cup {Percentile(v, r) : v \in Values, r \in Ranges}
        \cup {Cheap(h, f, t) : h \in 0..MaxCount, f \in BandHours, t \in BandHours}

\* Children of the composite trees: a price test, an hour test and a
\* percentile over a window around the current hour.
Atoms == {Price(2), Hours(1, 3), Percentile(<<1, 2>>, PlusMinusHours(1))}

Lists(S) == UNION {[1..n -> S] : n \in 0..MaxItems}

Flat == {And(l) : l \in Lists(Atoms)} \cup {Or(l) : l \in Lists(Atoms)}
            \cup {Not(a) : a \in Atoms}

Inner == {And(<<>>), Or(<<>>), Price(2), Percentile(<<1, 2>>, PlusMinusHours(1))}

Nested == {And(l) : l \in Lists(Inner)} \cup {Or(l) : l \in Lists(Inner)}
            \cup {Not(c) : c \in Flat}

Trees == Leaves \cup Flat \cup Nested

\* Trees replayed over the whole series.
ReplayTrees ==
    Atoms \cup {Percentile(<<1, 2>>, r) : r \in {Today, Future, FromTo(0, 3)}}
          \cup {Cheap(1, 23, 2), Cheap(2, 0, 24)}
          \cup {And(<<>>), Not(Or(<<>>)), And(<<Price(2), Hours(1, 3)>>),
                Or(<<Hours(1, 3), Percentile(<<1, 2>>, PlusMinusHours(1))>>)}

-----------------------------------------------------------------------------
(* data_loader::fetch_data: the reply of the market operator's chart-data  *)
(* endpoint is the outcome of the request (sent or not), its status,       *)
(* whether its body parses as the expected JSON, and its data lines, each  *)
(* a title and the y values of its points.                                 *)

ExpectedPoints == 96

PriceLineTitle == "15min price (EUR/MWh)"

DataLine(title, point) == [title |-> title, point |-> point]
Reply(sent, status, json, lines) ==
    [sent |-> sent, status |-> status, json |-> json, data_line |-> lines]

\* StatusCode::is_success
is_success(status) == 200 <= status /\ status <= 299

fetch_data(response) ==
    IF ~response.sent THEN Err("Network")
    ELSE IF ~is_success(response.status) THEN Err("UnexpectedStatus")
    ELSE IF ~response.json THEN Err("Network")
    ELSE LET hits == {k \in 1..Len(response.data_line) :
                        response.data_line[k].title = PriceLineTitle}
         IN  IF hits = {} THEN Err("PriceDataNotFound")
             ELSE LET price_data ==
                        response.data_line[CHOOSE k \in hits : \A j \in hits : k <= j]
                  IN  IF Len(price_data.point) # ExpectedPoints THEN Err("InvalidDataSize")
                      ELSE Ok(price_data.point)

-----------------------------------------------------------------------------
(* AppState: the cache of day prices, get_prices and expression_context.   *)
(* A DayPrices value is the sequence of prices fetch_data returned.        *)

Dates == {"yesterday", "today", "tomorrow"}

NEXT_DAY_PRICES_HOUR == 13

\* AppState::new: DashMap::new()
NoDays == [d \in Dates |-> None]

contains_key(cache, date) == cache[date].tag = "Some"

\* get_prices when the date is in the cache: self.days.get(date).map(clone)
get_prices_cached(cache, date) == cache[date]

\* Variant of get_prices_fetched that returns the prices without storing
\* them.
get_prices_fetched_unstored(cache, date, fetched) ==
    IF fetched.tag = "Ok"
    THEN [days |-> cache, res |-> Some(fetched.value)]
    ELSE [days |-> cache, res |-> None]

\* Variant of get_prices_fetched that gives up when another caller stored
\* the date in the meantime.
get_prices_fetched_first_only(cache, date, fetched) ==
    IF fetched.tag = "Ok" /\ ~contains_key(cache, date)
    THEN [days |-> [cache EXCEPT ![date] = Some(fetched.value)],
          res |-> Some(fetched.value)]
    ELSE [days |-> cache, res |-> None]

\* get_prices when the date was not in the cache, after fetch_data(date)
\* completed with fetched: the cache afterwards and the value returned
get_prices_fetched(cache, date, fetched) ==
    IF fetched.tag = "Ok"
    THEN [days |-> [cache EXCEPT ![date] = Some(fetched.value)],
          res |-> Some(fetched.value)]
    ELSE [days |-> cache, res |-> None]

Context(t, ps, ni) == [now |-> t, prices |-> ps, now_index |-> ni]

\* Variant of expression_context that builds a context from whatever days
\* are available.
expression_context_any_day(t, yesterday, today, tomorrow) ==
    IF yesterday.tag # "Some" /\ today.tag # "Some" /\ tomorrow.tag # "Some" THEN None
    ELSE LET hour == t % HoursPerDay
             before == IF yesterday.tag = "Some" THEN yesterday.value ELSE <<>>
             middle == IF today.tag = "Some" THEN today.value ELSE <<>>
             offset == IF yesterday.tag = "Some" THEN 24 ELSE 0
             after == IF tomorrow.tag = "Some" THEN tomorrow.value ELSE <<>>
         IN  Some(Context(t, before \o middle \o after, hour + offset))

\* expression_context once the joined get_prices calls have returned
\* (tomorrow is None when it was not asked for)
expression_context(t, yesterday, today, tomorrow) ==
    IF today.tag # "Some" THEN None
    ELSE LET hour == t % HoursPerDay
             before == IF yesterday.tag = "Some" THEN yesterday.value ELSE <<>>
             offset == IF yesterday.tag = "Some" THEN 24 ELSE 0
             after == IF tomorrow.tag = "Some" THEN tomorrow.value ELSE <<>>
         IN  Some(Context(t, before \o today.value \o after, hour + offset))

\* the dates expression_context asks get_prices for at hour of day hour
Joined(hour) ==
    IF hour >= NEXT_DAY_PRICES_HOUR THEN Dates ELSE {"yesterday", "today"}

\* A request in flight: the operation it runs, its get_prices calls (one
\* per date: not made, before the contains_key check, waiting for
\* fetch_data, or returned; hit tells whether the check found the date,
\* fetched how its fetch_data ended) and its result.
NoGet == [st |-> "none", hit |-> FALSE, fetched |-> "no", res |-> None]
IdleTask == [st |-> "idle", op |-> "none", gets |-> [d \in Dates |-> NoGet], out |-> None]

TaskIds == 1..MaxTasks
NoTasks == [p \in TaskIds |-> IdleTask]

----------------------------------------------------------------------------
(* State machine: a context is built once (EvaluateContext::new), then the *)
(* operations are called on it; Return drops the result.  The clock is     *)
(* late enough that now - now_index >= 0; its hour of day is that of       *)
(* now_index (expression_context) or ahead of it (contexts built by hand,  *)
(* as in test_cheap_yesterday_today).                                      *)

Init ==
    /\ \E shape \in Shapes, len \in SeriesLens :
        /\ prices = Series(shape, len)
        /\ now_index \in 0..(len - 1)
        /\ now = HoursPerDay * MaxDays
                    + ((now_index + ClockSkew(shape)) % HoursPerDay)
    /\ pc = "idle"
    /\ call = [op |-> "none"]
    /\ ret = None
    /\ days = NoDays
    /\ tasks = NoTasks

CallFindTimeRange ==
    /\ pc = "idle"
    /\ \E f \in BandHours, t \in BandHours :
        /\ call' = [op |-> "find_time_range", from |-> f, to |-> t]
        /\ ret' = find_time_range(now_index, f, t)
    /\ pc' = "find_time_range"
    /\ UNCHANGED <<prices, now_index, now, days, tasks>>

CallSlice ==
    /\ pc = "idle"
    /\ \E f \in BandHours, t \in BandHours :
        /\ call' = [op |-> "slice", from |-> f, to |-> t]
        /\ ret' = slice(prices, now_index, f, t)
    /\ pc' = "slice"
    /\ UNCHANGED <<prices, now_index, now, days, tasks>>

CallLimit ==
    /\ pc = "idle"
    /\ \E r \in Ranges :
        /\ call' = [op |-> "limit", range |-> r]
        /\ ret' = limit(prices, now_index, r)
    /\ pc' = "limit"
    /\ UNCHANGED <<prices, now_index, now, days, tasks>>

\* percentile() of the window that limit() returned
CallPercentile ==
    /\ pc = "limit"
    /\ ret.tag = "Some"
    /\ call' = [op |-> "percentile", range |-> call.range, window |-> ret]
    /\ ret' = percentile(ret)
    /\ pc' = "percentile"
    /\ UNCHANGED <<prices, now_index, now, days, tasks>>

\* percentile() of a PricesContext built by hand
CallPercentileOn ==
    /\ pc = "idle"
    /\ \E w \in HandWindows(prices) :
        /\ call' = [op |-> "percentile", range |-> None, window |-> w]
        /\ ret' = percentile(w)
    /\ pc' = "percentile"
    /\ UNCHANGED <<prices, now_index, now, days, tasks>>

CallEvaluate ==
    /\ pc = "idle"
    /\ \E c \in Trees :
        /\ call' = [op |-> "evaluate", tree |-> c]
        /\ ret' = [tag |-> evaluate(c, prices, now_index, now)]
    /\ pc' = "evaluate"
    /\ UNCHANGED <<prices, now_index, now, days, tasks>>

CallEvaluateAll ==
    /\ pc = "idle"
    /\ \E c \in ReplayTrees :
        /\ call' = [op |-> "evaluate_all", tree |-> c]
        /\ ret' = evaluate_all(c, prices, now_index, now)
    /\ pc' = "evaluate_all"
    /\ UNCHANGED <<prices, now_index, now, days, tasks>>

Return ==
    /\ pc # "idle"
    /\ pc' = "idle"
    /\ call' = [op |-> "none"]
    /\ ret' = None
    /\ UNCHANGED <<prices, now_index, now, days, tasks>>

Next ==
    \/ CallFindTimeRange
    \/ CallSlice
    \/ CallLimit
    \/ CallPercentile
    \/ CallPercentileOn
    \/ CallEvaluate
    \/ CallEvaluateAll
    \/ Return

Spec == Init /\ [][Next]_vars

-----------------------------------------------------------------------------
(* The expression routes: wire texts, edit requests and the requests made  *)
(* of the parser, the serialiser and the handlers                          *)

\* Lists of conditions written on the wire.
ItemLists ==
    Lists(Atoms)
        \cup {<<Or(<<Price(2)>>), Not(Hours(1, 3))>>,
              <<Cheap(1, 0, 24)>>,
              <<Percentile(<<1, 2>>, Today), Percentile(<<1, 1>>, FromTo(0, 3))>>,
              <<And(<<Percentile(<<0, 1>>, Future)>>)>>}

TextOf(items) == JArr([i \in 1..Len(items) |-> ser_condition(items[i])])

WellFormedTexts == {TextOf(l) : l \in ItemLists}

\* Texts that are no list of conditions: no JSON5 at all, a lone condition,
\* a lone string, an unknown variant, a wrong arity, a wrong type, a missing
\* field, an unknown range.
MalformedTexts ==
    {BadText,
     JObj("price", JInt(2)),
     JStr("today"),
     JArr(<<JObj("cost", JInt(2))>>),
     JArr(<<JObj("hours", JArr(<<JInt(1)>>))>>),
     JArr(<<JObj("price", JStr("low"))>>),
     JArr(<<JObj("price", JInt(2)), JInt(3)>>),
     JArr(<<JObj("not", JArr(<<>>))>>),
     JArr(<<JObj("percentile", JMap([value |-> JNum(<<1, 2>>)]))>>),
     JArr(<<JObj("percentile",
                 JMap([value |-> JNum(<<1, 2>>), range |-> JStr("week")]))>>),
     JArr(<<JObj("and", JArr(<<JObj("cheap", JMap([hours |-> JInt(1)]))>>))>>)}

WireTexts == WellFormedTexts \cup MalformedTexts

Queries == {None} \cup {Some(text) : text \in WireTexts}

ChangeRequests ==
    {ChangeRequest(path, change) :
        path \in {<<>>, <<0>>, <<1>>, <<0, 0>>},
        change \in {Extend("and"), Extend("price"), SetPrice(30), SetHours(0, 2)}}

\* The contexts expression_context() assembles from a cache without today's
\* prices, with today's prices, and with yesterday's and today's.
InitWire ==
    /\ \E n \in 0..MaxDays :
        /\ prices = [i \in 1..(HoursPerDay * n) |-> PriceAt("ramp", i - 1)]
        /\ now_index \in IF n = 0 THEN {0}
                         ELSE {HoursPerDay * (n - 1) + h : h \in {0, 2, 23}}
    /\ now = HoursPerDay * MaxDays + (now_index % HoursPerDay)
    /\ pc = "idle"
    /\ call = [op |-> "none"]
    /\ ret = None
    /\ days = NoDays
    /\ tasks = NoTasks

\* String::try_from(tree)
CallStringTryFrom ==
    /\ pc = "idle"
    /\ \E c \in Trees :
        /\ call' = [op |-> "string_try_from", tree |-> c]
        /\ ret' = string_try_from(c)
    /\ pc' = "serialized"
    /\ UNCHANGED <<prices, now_index, now, days, tasks>>

\* Condition::try_from(&text) of the text just written
CallConditionTryFromWritten ==
    /\ pc = "serialized"
    /\ ret.tag = "Ok"
    /\ call' = [op |-> "condition_try_from", tree |-> call.tree, text |-> ret.value]
    /\ ret' = condition_try_from(ret.value)
    /\ pc' = "reparsed"
    /\ UNCHANGED <<prices, now_index, now, days, tasks>>

\* Condition::try_from(&text)
CallConditionTryFrom ==
    /\ pc = "idle"
    /\ \E text \in WireTexts :
        /\ call' = [op |-> "condition_try_from", text |-> text]
        /\ ret' = condition_try_from(text)
    /\ pc' = "parsed"
    /\ UNCHANGED <<prices, now_index, now, days, tasks>>

CallConditionHandler ==
    /\ pc = "idle"
    /\ \E text \in WireTexts :
        /\ call' = [op |-> "condition_handler", text |-> text]
        /\ ret' = condition_handler(text, prices, now_index, now)
    /\ pc' = "exp"
    /\ UNCHANGED <<prices, now_index, now, days, tasks>>

CallBuilderHandler ==
    /\ pc = "idle"
    /\ \E exp \in Queries :
        /\ call' = [op |-> "builder_handler", exp |-> exp]
        /\ ret' = builder_handler(exp, prices, now_index, now)
    /\ pc' = "builder"
    /\ UNCHANGED <<prices, now_index, now, days, tasks>>

CallBuilderUpdateHandler ==
    /\ pc = "idle"
    /\ \E exp \in Queries, form_data \in ChangeRequests :
        /\ call' = [op |-> "builder_update_handler", exp |-> exp, form_data |-> form_data]
        /\ ret' = builder_update_handler(exp, form_data)
    /\ pc' = "builder_update"
    /\ UNCHANGED <<prices, now_index, now, days, tasks>>

NextWire ==
    \/ CallStringTryFrom
    \/ CallConditionTryFromWritten
    \/ CallConditionTryFrom
    \/ CallConditionHandler
    \/ CallBuilderHandler
    \/ CallBuilderUpdateHandler
    \/ Return

SpecWire == InitWire /\ [][NextWire]_vars

-----------------------------------------------------------------------------
(* The price cache under concurrent requests.  Each task runs              *)
(* expression_context or a single get_prices; the get_prices calls of      *)
(* expression_context are joined, so all make their contains_key check (in *)
(* the order yesterday, today, tomorrow) before any of their fetches       *)
(* completes.  Steps of different tasks interleave freely.  At most        *)
(* MaxTasks requests and MaxCalls get_prices calls are in flight.          *)

DateOrder == <<"yesterday", "today", "tomorrow">>
Earlier(d) == {DateOrder[k] : k \in {k \in 1..3 : \E j \in (k + 1)..3 : DateOrder[j] = d}}

\* Prices of a day as the endpoint publishes them, one per quarter hour.
QuarterPrices(date) ==
    LET base == CASE date = "yesterday" -> 100
                  [] date = "today" -> 200
                  [] date = "tomorrow" -> 300
    IN  [k \in 1..ExpectedPoints |-> base + ((k * 7) % 5)]

HourlyLine(date) ==
    DataLine("Price (EUR/MWh)", [k \in 1..HoursPerDay |-> QuarterPrices(date)[k]])

\* Replies to the request for a date: the published day, a server error,
\* and a price line of 24 points.
CacheReplies(date) ==
    {Reply(TRUE, 200, TRUE, <<HourlyLine(date), DataLine(PriceLineTitle, QuarterPrices(date))>>),
     Reply(TRUE, 500, FALSE, <<>>),
     Reply(TRUE, 200, TRUE, <<DataLine(PriceLineTitle, HourlyLine(date).point)>>)}

\* Hours of day at which the cache is exercised: before and from the hour
\* tomorrow's prices are asked for.
CacheHours == {NEXT_DAY_PRICES_HOUR - 1, NEXT_DAY_PRICES_HOUR, HoursPerDay - 1}

InitCache ==
    /\ prices = <<>>
    /\ now_index = 0
    /\ now \in {HoursPerDay * MaxDays + h : h \in CacheHours}
    /\ pc = "idle"
    /\ call = [op |-> "none"]
    /\ ret = None
    /\ days = NoDays
    /\ tasks = NoTasks

Checking(p) == {d \in Dates : tasks[p].gets[d].st = "check"}

\* get_prices calls made so far; a task starts only while its calls keep
\* their number within MaxCalls
Calls == {c \in TaskIds \X Dates : tasks[c[1]].gets[c[2]].st # "none"}
Room(n) == Cardinality(Calls) + n <= MaxCalls

\* Requests are interchangeable: a new one takes the lowest idle task.
FreeTask(p) ==
    /\ tasks[p].st = "idle"
    /\ \A q \in TaskIds : q < p => tasks[q].st # "idle"

StartExpressionContext(p) ==
    /\ FreeTask(p)
    /\ Room(Cardinality(Joined(now % HoursPerDay)))
    /\ tasks' = [tasks EXCEPT ![p] =
            [st |-> "running", op |-> "expression_context",
             gets |-> [d \in Dates |->
                        IF d \in Joined(now % HoursPerDay)
                        THEN [NoGet EXCEPT !.st = "check"] ELSE NoGet],
             out |-> None]]
    /\ UNCHANGED <<prices, now_index, now, pc, call, ret, days>>

StartGetPrices(p) ==
    /\ FreeTask(p)
    /\ Room(1)
    /\ \E date \in Dates :
        tasks' = [tasks EXCEPT ![p] =
            [st |-> "running", op |-> "get_prices",
             gets |-> [d \in Dates |->
                        IF d = date THEN [NoGet EXCEPT !.st = "check"] ELSE NoGet],
             out |-> None]]
    /\ UNCHANGED <<prices, now_index, now, pc, call, ret, days>>

\* get_prices up to the await of fetch_data: the contains_key check and,
\* on a hit, the read of the entry
CheckCache(p) ==
    /\ tasks[p].st = "running"
    /\ \E d \in Checking(p) :
        /\ Earlier(d) \cap Checking(p) = {}
        /\ tasks' = [tasks EXCEPT ![p].gets[d] =
                IF contains_key(days, d)
                THEN [NoGet EXCEPT !.st = "done", !.hit = TRUE,
                                   !.res = get_prices_cached(days, d)]
                ELSE [NoGet EXCEPT !.st = "fetching"]]
    /\ UNCHANGED <<prices, now_index, now, pc, call, ret, days>>

\* get_prices from the completion of fetch_data on
FetchDone(p) ==
    /\ tasks[p].st = "running"
    /\ Checking(p) = {}
    /\ \E d \in Dates :
        /\ tasks[p].gets[d].st = "fetching"
        /\ \E reply \in CacheReplies(d) :
            LET fetched == fetch_data(reply)
                r == get_prices_fetched(days, d, fetched)
            IN  /\ days' = r.days
                /\ tasks' = [tasks EXCEPT ![p].gets[d] =
                        [NoGet EXCEPT !.st = "done", !.fetched = fetched.tag,
                                      !.res = r.res]]
    /\ UNCHANGED <<prices, now_index, now, pc, call, ret>>

\* the operation returns to its caller
Finish(p) ==
    /\ tasks[p].st = "running"
    /\ \A d \in Dates : tasks[p].gets[d].st \in {"none", "done"}
    /\ tasks' = [tasks EXCEPT ![p].st = "finished", ![p].out =
            IF tasks[p].op = "expression_context"
            THEN expression_context(now, tasks[p].gets["yesterday"].res,
                                    tasks[p].gets["today"].res,
                                    tasks[p].gets["tomorrow"].res)
            ELSE LET d == CHOOSE d \in Dates : tasks[p].gets[d].st = "done"
                 IN  tasks[p].gets[d].res]
    /\ UNCHANGED <<prices, now_index, now, pc, call, ret, days>>

NextCache ==
    \E p \in TaskIds :
        \/ StartExpressionContext(p)
        \/ StartGetPrices(p)
        \/ CheckCache(p)
        \/ FetchDone(p)
        \/ Finish(p)

SpecCache == InitCache /\ [][NextCache]_vars

-----------------------------------------------------------------------------
(* The day pages: the price graph (fetch_data_handler and                  *)
(* DayPrices::render_graph, src/src/html_render.rs), the loader's reading  *)
(* of a reply, and the optimalizer with the window percentile of the       *)
(* earlier evaluator (src/src/web_server.rs).  There a day is a DayPrices  *)
(* of 24 hourly prices.                                                    *)

\* usize::MAX; only MAX - 1 >= 24 and 0 - 1 wrapping to MAX matter here, and
\* the model's integers have 32 bits.
USIZE_MAX == 2147483647

\* get_prices run in one piece, fetched being how fetch_data ends if called.
get_prices(cache, date, fetched) ==
    IF contains_key(cache, date)
    THEN [days |-> cache, res |-> get_prices_cached(cache, date)]
    ELSE get_prices_fetched(cache, date, fetched)

\* prices.iter().skip(i).take(hours).sum()
RECURSIVE RunSum(_, _, _)
RunSum(ps, i, hours) ==
    IF hours = 0 \/ i >= Len(ps) THEN 0
    ELSE ps[i + 1] + RunSum(ps, i + 1, hours - 1)

F32_MAX == [tag |-> "f32::MAX"]
Below(total, cheapist_price) ==
    cheapist_price = F32_MAX \/ total < cheapist_price.value

\* for i in from..until { ... }
RECURSIVE cheapiest_scan(_, _, _, _, _, _)
cheapiest_scan(ps, hours, i, until, hour, cheapist_price) ==
    IF i >= until THEN hour
    ELSE LET total_price == RunSum(ps, i, hours)
         IN  IF Below(total_price, cheapist_price)
             THEN cheapiest_scan(ps, hours, i + 1, until, i, Some(total_price))
             ELSE cheapiest_scan(ps, hours, i + 1, until, hour, cheapist_price)

\* day is what get_prices returned; hours is a u8 and at most 24 in every
\* call made here (24 - hours overflows beyond).
find_cheapiest_hours(day, hours) ==
    IF day = None THEN None
    ELSE Some(cheapiest_scan(day.value, hours, 0, 24 - hours, 0, F32_MAX))

LimitedRange(index, ps) == [index |-> index, prices |-> ps]

\* LimitedRange::percentile: sorts self.prices in place, then reads
\* self.prices[self.index]
limited_range_percentile(w) ==
    IF Len(w.prices) = 0 THEN Panic
    ELSE IF ~(w.index < Len(w.prices)) THEN Panic
    ELSE IF Len(w.prices) = 1 THEN Ratio(1, 1)
    ELSE LET sorted == SortAsc(w.prices)
             target_price == sorted[w.index + 1]
             position == PositionEq(sorted, target_price)
         IN  Ratio(position, Len(w.prices) - 1)

Graph(bars) == [tag |-> "Graph", bars |-> bars]

\* render_graph: one bar per price, green where active_hour_index == hour and
\* blue elsewhere.  active_hour - 1 is a usize subtraction: for active_hour 0
\* it panics where overflow checks are compiled in and wraps where not.
render_graph(ps, active_hour, overflow_checks) ==
    IF active_hour = 0 /\ overflow_checks THEN Panic
    ELSE LET active_hour_index ==
                 IF active_hour = 0 THEN USIZE_MAX ELSE active_hour - 1
         IN  Graph([k \in 1..Len(ps) |->
                 [price |-> ps[k],
                  fill |-> IF active_hour_index = k - 1 THEN "green" ELSE "blue"]])

\* GET /?date=...: query is the date parameter, if any; t the clock.
fetch_data_handler(cache, query, t, fetched, overflow_checks) ==
    LET today == "today"
        input_date == IF query = None THEN today ELSE query.value
        hour == t % HoursPerDay
        active_hour == IF input_date = today THEN hour ELSE USIZE_MAX
        got == get_prices(cache, input_date, fetched)
    IN  [days |-> got.days,
         res |-> IF got.res = None
                 THEN Response(404, Graph(<<>>))
                 ELSE LET graph == render_graph(got.res.value, active_hour,
                                                overflow_checks)
                      IN  IF graph = Panic THEN Panic ELSE Response(200, graph)]

Points(n) == [k \in 1..n |-> 100 + ((k * 7) % 5)]
PointCounts == {0, 23, 24, 25, 95, 96, 97}

\* Replies of the market's server: none, an error status, a body that is not
\* the expected JSON, and chart data whose lines carry various numbers of
\* points (the first line with the title of the price line is the one read).
Replies ==
    {Reply(FALSE, 0, FALSE, <<>>), Reply(TRUE, 404, FALSE, <<>>),
     Reply(TRUE, 500, FALSE, <<>>), Reply(TRUE, 200, FALSE, <<>>),
     Reply(TRUE, 200, TRUE, <<>>)}
    \cup {Reply(TRUE, 200, TRUE, <<DataLine(title, Points(n))>>) :
            title \in {PriceLineTitle, "Price (EUR/MWh)"}, n \in PointCounts}
    \cup {Reply(TRUE, 200, TRUE,
                <<DataLine("Price (EUR/MWh)", Points(HoursPerDay)),
                  DataLine(PriceLineTitle, Points(n))>>) : n \in PointCounts}
    \cup {Reply(TRUE, 200, TRUE,
                <<DataLine(PriceLineTitle, Points(n)),
                  DataLine(PriceLineTitle, Points(ExpectedPoints))>>) :
            n \in PointCounts}

\* Ways fetch_data can end for a day of DayPrices.
DayFetches == {Err("Network")} \cup {Ok(Series(shape, HoursPerDay)) : shape \in Shapes}

RunLengths == {0, 1, 2, 12, 23, 24}
LimitedRanges ==
    {LimitedRange(index, ps) :
        index \in 0..3, ps \in UNION {[1..n -> 1..3] : n \in 0..3}}

InitDay ==
    /\ prices = <<>>
    /\ now_index = 0
    /\ now \in {HoursPerDay * MaxDays + h : h \in {0, 1, HoursPerDay - 1}}
    /\ pc = "idle"
    /\ call = [op |-> "none"]
    /\ ret = None
    /\ days = NoDays
    /\ tasks = NoTasks

\* fetch_data(date), the server answering with reply
CallFetchData ==
    /\ pc = "idle"
    /\ \E reply \in Replies :
        /\ call' = [op |-> "fetch_data", reply |-> reply]
        /\ ret' = fetch_data(reply)
    /\ pc' = "returned"
    /\ UNCHANGED <<prices, now_index, now, days, tasks>>

\* state.find_cheapiest_hours(hours)
CallFindCheapiestHours ==
    /\ pc = "idle"
    /\ \E hours \in RunLengths, fetched \in DayFetches :
        LET got == get_prices(days, "today", fetched)
        IN  /\ call' = [op |-> "find_cheapiest_hours", hours |-> hours,
                        day |-> got.res]
            /\ ret' = find_cheapiest_hours(got.res, hours)
            /\ days' = got.days
    /\ pc' = "returned"
    /\ UNCHANGED <<prices, now_index, now, tasks>>

\* range.percentile() of the earlier evaluator
CallLimitedRangePercentile ==
    /\ pc = "idle"
    /\ \E w \in LimitedRanges :
        /\ call' = [op |-> "limited_range_percentile", range |-> w]
        /\ ret' = limited_range_percentile(w)
    /\ pc' = "returned"
    /\ UNCHANGED <<prices, now_index, now, days, tasks>>

\* GET /?date=...
CallFetchDataHandler ==
    /\ pc = "idle"
    /\ \E query \in {None} \cup {Some(d) : d \in Dates}, fetched \in DayFetches,
          overflow_checks \in BOOLEAN :
        LET r == fetch_data_handler(days, query, now, fetched, overflow_checks)
        IN  /\ call' = [op |-> "fetch_data_handler", query |-> query,
                        hour |-> now % HoursPerDay]
            /\ ret' = r.res
            /\ days' = r.days
    /\ pc' = "returned"
    /\ UNCHANGED <<prices, now_index, now, tasks>>

NextDay ==
    \/ CallFetchData
    \/ CallFindCheapiestHours
    \/ CallLimitedRangePercentile
    \/ CallFetchDataHandler
    \/ Return

SpecDay == InitDay /\ [][NextDay]_vars

----------------------------------------------------------------------------
(* Properties *)

Tree == call.tree
DayStart == (now_index \div HoursPerDay) * HoursPerDay
Evaluated(kind) == pc = "evaluate" /\ Tree.kind = kind
Eval(c) == evaluate(c, prices, now_index, now)

Distinct(s) == \A i, j \in 1..Len(s) : i # j => s[i] # s[j]
IsMin(s, x) == \A k \in 1..Len(s) : x <= s[k]
IsMax(s, x) == \A k \in 1..Len(s) : s[k] <= x
Reverse(s) == [k \in 1..Len(s) |-> s[Len(s) + 1 - k]]
IsEmptyNode(c) == c = And(<<>>) \/ c = Or(<<>>)

\* C1: evaluate_all returns exactly len(prices) booleans for every tree and
\* every context; no tree makes the replay abort.
C1_ReplayLength ==
    pc = "evaluate_all" => ret.tag = "Ok" /\ Len(ret.values) = Len(prices)

\* C2: when limit(range) yields no window, Percentile evaluates to false, and
\* when slice(from, to) yields no band, Cheap evaluates to false; neither
\* propagates an error.
C2_UnresolvedIsFalse ==
    /\ Evaluated("Percentile") /\ limit(prices, now_index, Tree.range) = None
            => ret.tag = "false"
    /\ Evaluated("Cheap") /\ slice(prices, now_index, Tree.from, Tree.to) = None
            => ret.tag = "false"

\* A Cheap condition whose band contains the current hour but runs past the
\* available prices has been evaluated (to false).
C2_Witness ==
    /\ Evaluated("Cheap")
    /\ find_time_range(now_index, Tree.from, Tree.to).tag = "Some"
    /\ find_time_range(now_index, Tree.from, Tree.to).end > Len(prices)
    /\ ret.tag = "false"

\* C3: Percentile over Today evaluates to false (no panic) when the series
\* holds fewer than dayStart + 24 prices.
C3_TodayShortIsFalse ==
    Evaluated("Percentile") /\ Tree.range = Today
        /\ Len(prices) < DayStart + HoursPerDay
            => ret.tag = "false"

\* C4: limit(PlusMinusHours(h)) returns prices[max(0, now_index - h) ..
\* min(len, now_index + h + 1)) with relative_index = now_index - start
\* (= h when the lower edge was not clamped), never failing at an edge.
C4_PlusMinusClamped ==
    pc = "limit" /\ call.range.kind = "PlusMinusHours" =>
        LET h == call.range.hours
            start == IF now_index >= h THEN now_index - h ELSE 0
            end == Min(Len(prices), now_index + h + 1)
        IN  ret = SomeWindow(now_index - start, Slice(prices, start, end))

\* C5: limit(FromTo(from, to)) with from > to resolves the window
\* [dayStart + from, dayStart + 24 + to) with relative_index = now_index -
\* (dayStart + from) when the current hour is inside it, and no window
\* otherwise.
C5_FromToCrossesMidnight ==
    pc = "limit" /\ call.range.kind = "FromTo" /\ call.range.from > call.range.to =>
        LET start == DayStart + call.range.from
            end == DayStart + HoursPerDay + call.range.to
        IN  IF start <= now_index /\ now_index < end
            THEN end <= Len(prices)
                    => ret = SomeWindow(now_index - start, Slice(prices, start, end))
            ELSE ret = None

\* C6 as stated: with from = to the band is the single hour `from`: it
\* resolves to that one hour when the current hour of day equals from, and
\* to nothing otherwise.
C6_SingleHourBand ==
    /\ pc = "find_time_range" /\ call.from = call.to =>
            IF now_index % HoursPerDay = call.from
            THEN ret = SomeRange(now_index, now_index + 1)
            ELSE ret = None
    /\ pc = "slice" /\ call.from = call.to =>
            IF now_index % HoursPerDay = call.from
            THEN ret = SomeSlice(<<prices[now_index + 1]>>)
            ELSE ret = None

\* C6 amended: with from = to the band is empty: find_time_range and slice
\* resolve to nothing for every current hour, the hour `from` included.
C6_EqualBandIsEmpty ==
    pc \in {"find_time_range", "slice"} /\ call.from = call.to => ret = None

\* find_time_range was asked for the band from = to = current hour of day.
C6_Witness ==
    /\ pc = "find_time_range"
    /\ call.from = call.to
    /\ call.from = now_index % HoursPerDay
    /\ ret = None

InUnit(r) == r.tag = "Ok" /\ r.den > 0 /\ 0 <= r.num /\ r.num <= r.den
Window == call.window
Target == Window.prices[Window.now_index + 1]
ValidWindow ==
    pc = "percentile" /\ Len(Window.prices) > 0
        /\ Window.now_index < Len(Window.prices)

\* C7 as stated: for every non-empty window with relative_index in bounds
\* the percentile lies in [0, 1]; with all prices distinct the cheapest
\* element has percentile 0 and the most expensive percentile 1.
C7_PercentileRange ==
    ValidWindow =>
        /\ InUnit(ret)
        /\ Distinct(Window.prices) =>
            /\ IsMin(Window.prices, Target) => ret.num = 0
            /\ IsMax(Window.prices, Target) => ret.num = ret.den

\* C7 amended: the percentile lies in [0, 1]; with all prices distinct the
\* most expensive element has percentile 1, and the cheapest element has
\* percentile 0 provided the window holds at least two prices (a one-price
\* window yields 1).
C7_PercentileRangeTwoPrices ==
    ValidWindow =>
        /\ InUnit(ret)
        /\ Distinct(Window.prices) =>
            /\ IsMin(Window.prices, Target) /\ Len(Window.prices) >= 2 => ret.num = 0
            /\ IsMax(Window.prices, Target) => ret.num = ret.den
        /\ Len(Window.prices) = 1 => ret.num = ret.den

\* percentile() ranked the cheapest price of a whole-day window of distinct
\* prices in which that price is not the first element.
C7_Witness ==
    /\ ValidWindow
    /\ call.range = Today
    /\ Len(Window.prices) >= 2
    /\ Distinct(Window.prices)
    /\ IsMin(Window.prices, Target)
    /\ Window.now_index > 0
    /\ ret.num = 0

Band == slice(prices, now_index, Tree.from, Tree.to)
NotGreater(s, x) == Cardinality({k \in 1..Len(s) : s[k] <= x})
\* x is not greater than the count-th smallest element of s
AmongCheapest(s, x, count) ==
    \/ count >= Len(s)
    \/ count >= 1 /\ x <= SortAsc(s)[count]

\* C8 as stated: Cheap is true exactly when the band resolves and the
\* current price is not greater than the count-th smallest band price
\* (always when count >= band length), also when band prices are equal.
C8_CheapestAmong ==
    Evaluated("Cheap") =>
        ret.tag = Bool(Band.tag = "Some"
                        /\ AmongCheapest(Band.prices, prices[now_index + 1], Tree.hours))

\* C8 amended: Cheap is true exactly when the band resolves and at most
\* count band prices are not greater than the current price; when the band
\* prices are pairwise distinct this is the same as the current price being
\* not greater than the count-th smallest band price.
C8_CheapestAmongNoTies ==
    Evaluated("Cheap") =>
        /\ ret.tag = Bool(Band.tag = "Some"
                        /\ NotGreater(Band.prices, prices[now_index + 1]) <= Tree.hours)
        /\ Band.tag = "Some" /\ Distinct(Band.prices) =>
            ret.tag = Bool(AmongCheapest(Band.prices, prices[now_index + 1], Tree.hours))

\* A Cheap condition over a band with equal prices was evaluated to false
\* although the current price equals the count-th smallest band price.
C8_Witness ==
    /\ Evaluated("Cheap")
    /\ Band.tag = "Some"
    /\ ~Distinct(Band.prices)
    /\ AmongCheapest(Band.prices, prices[now_index + 1], Tree.hours)
    /\ ret.tag = "false"

\* C9: And([]) and Or([]) evaluate to false, also as children of other
\* nodes: Not of an empty node is true, an And whose first child is an
\* empty node is false and an And holding one is never true, an Or of empty
\* nodes only is false, and an Or whose first child is an empty node has the
\* value of the Or of the remaining children.
C9_EmptyIsFalse ==
    pc = "evaluate" =>
        /\ IsEmptyNode(Tree) => ret.tag = "false"
        /\ Tree.kind = "Not" /\ IsEmptyNode(Tree.item) => ret.tag = "true"
        /\ Tree.kind = "And" /\ Len(Tree.items) > 0 =>
            /\ IsEmptyNode(Tree.items[1]) => ret.tag = "false"
            /\ (\E i \in 1..Len(Tree.items) : IsEmptyNode(Tree.items[i]))
                    => ret.tag # "true"
        /\ Tree.kind = "Or" /\ Len(Tree.items) > 0 =>
            /\ (\A i \in 1..Len(Tree.items) : IsEmptyNode(Tree.items[i]))
                    => ret.tag = "false"
            /\ IsEmptyNode(Tree.items[1]) /\ Len(Tree.items) > 1
                    => ret.tag = Eval(Or(Tail(Tree.items)))

\* An And node nested as the first child of an Or with a second child that
\* holds was evaluated: the empty And counted as false and the Or is true.
C9_Witness ==
    /\ Evaluated("Or")
    /\ Len(Tree.items) = 2
    /\ Tree.items[1] = And(<<>>)
    /\ Eval(Tree.items[2]) = "true"
    /\ ret.tag = "true"

\* C10: a non-empty And is true iff every child evaluates true, a non-empty
\* Or is true iff some child evaluates true, the result does not depend on
\* the order of the children, and a single-child And/Or has the value of
\* its child.
C10_AndOrSemantics ==
    pc = "evaluate" /\ Tree.kind \in {"And", "Or"} /\ Len(Tree.items) > 0 =>
        /\ Tree.kind = "And" =>
            (ret.tag = "true" <=>
                \A i \in 1..Len(Tree.items) : Eval(Tree.items[i]) = "true")
        /\ Tree.kind = "Or" =>
            (ret.tag = "true" <=>
                \E i \in 1..Len(Tree.items) : Eval(Tree.items[i]) = "true")
        /\ ret.tag = Eval([Tree EXCEPT !.items = Reverse(Tree.items)])
        /\ Len(Tree.items) = 1 => ret.tag = Eval(Tree.items[1])

-----------------------------------------------------------------------------
(* Replay, windows and leaf conditions *)

\* evaluate() of the tree in the context moved to index i (0-based): same
\* prices, now_index = i, clock shifted by i - now_index hours
EvalAt(i) == evaluate(Tree, prices, i, now + (i - now_index))

\* C11: element i of evaluate_all(tree, ctx) is evaluate(tree, ctx_i), where
\* ctx_i has the same prices, now_index = i and the clock shifted by
\* i - ctx.now_index hours; the elements are in series order and the one at
\* ctx.now_index is evaluate(tree, ctx).  The replay yields no list exactly
\* when one of these evaluations yields no value.
C11_ReplayPointwise ==
    pc = "evaluate_all" =>
        /\ ret.tag = "Ok" =>
            /\ Len(ret.values) = Len(prices)
            /\ \A i \in 0..(Len(prices) - 1) :
                    ret.values[i + 1] = (EvalAt(i) = "true")
            /\ ret.values[now_index + 1] = (Eval(Tree) = "true")
        /\ ret = Panic <=> \E i \in 0..(Len(prices) - 1) : EvalAt(i) = "panic"

\* A replay of an Hours condition returned, from a context past the first
\* hour whose clock is not on the hour of day of now_index, with both true
\* and false elements.
C11_Witness ==
    /\ pc = "evaluate_all"
    /\ Tree.kind = "Hours"
    /\ ret.tag = "Ok"
    /\ now_index > 0
    /\ now % HoursPerDay # now_index % HoursPerDay
    /\ \E i, j \in 1..Len(ret.values) : ret.values[i] /\ ~ret.values[j]

Limited(kind) == pc = "limit" /\ call.range.kind = kind
DayAvailable == DayStart + HoursPerDay <= Len(prices)

\* C12: for FromTo(from, to) with from < to <= 24 and the current day's
\* prices available (up to the end of the band), limit returns a window exactly when
\* dayStart + from <= now_index < dayStart + to; the window is
\* prices[dayStart + from .. dayStart + to) with relative_index
\* now_index - (dayStart + from); otherwise limit returns nothing.
C12_FromToWindow ==
    Limited("FromTo") /\ call.range.from < call.range.to
                      /\ call.range.to <= HoursPerDay
                      /\ DayStart + call.range.to <= Len(prices) =>
        LET lo == DayStart + call.range.from
            hi == DayStart + call.range.to
        IN  IF lo <= now_index /\ now_index < hi
            THEN ret = SomeWindow(now_index - lo, Slice(prices, lo, hi))
            ELSE ret = None

\* limit(FromTo) returned a window on the second day of the series, with
\* the current hour past the first hour of the band.
C12_Witness ==
    /\ Limited("FromTo")
    /\ call.range.from < call.range.to /\ call.range.to <= HoursPerDay
    /\ DayAvailable
    /\ DayStart > 0
    /\ ret.tag = "Some"
    /\ ret.now_index > 0
    /\ Len(ret.prices) = call.range.to - call.range.from

\* C13: for Today with the whole current day available, limit returns the
\* 24 prices at indices [dayStart, dayStart + 24) with relative_index
\* now_index - dayStart (= now_index mod 24), on every day of a multi-day
\* series.
C13_TodayWindow ==
    Limited("Today") /\ DayAvailable =>
        /\ ret = SomeWindow(now_index - DayStart,
                            Slice(prices, DayStart, DayStart + HoursPerDay))
        /\ Len(ret.prices) = HoursPerDay
        /\ ret.now_index = now_index % HoursPerDay
        /\ \A k \in 1..HoursPerDay : ret.prices[k] = prices[DayStart + k]

\* limit(Today) returned the second day of a two-day series.
C13_Witness ==
    /\ Limited("Today")
    /\ DayAvailable
    /\ DayStart = HoursPerDay
    /\ ret.tag = "Some"
    /\ ret.prices[1] = prices[HoursPerDay + 1]
    /\ ret.prices[1] # prices[1]

Smaller(s, x) == Cardinality({k \in 1..Len(s) : s[k] < x})

\* C14: for a window of at least two prices the percentile is
\* position / (length - 1), where position is the first index of the target
\* price in the ascending sort of the window, i.e. the number of prices
\* strictly smaller than the target; tied prices get the lowest rank.
C14_PercentileFormula ==
    ValidWindow /\ Len(Window.prices) >= 2 =>
        LET sorted == SortAsc(Window.prices)
            position == Smaller(Window.prices, Target)
        IN  /\ ret = Ratio(position, Len(Window.prices) - 1)
            /\ sorted[position + 1] = Target
            /\ \A k \in 1..position : sorted[k] < Target

\* percentile() ranked a price that occurs more than once in its window and
\* is not the cheapest of it.
C14_Witness ==
    /\ ValidWindow
    /\ Len(Window.prices) >= 2
    /\ \E k \in 1..Len(Window.prices) :
            k # Window.now_index + 1 /\ Window.prices[k] = Target
    /\ ret.tag = "Ok"
    /\ ret.num > 0
    /\ ret.num = Smaller(Window.prices, Target)

\* the window that limit() gives the Percentile leaf under evaluation
LeafWindow == limit(prices, now_index, Tree.range)

\* C15: a one-price window yields percentile 1.0, so a Percentile leaf over
\* a one-price window is true exactly when its value is >= 1.0.
C15_SinglePrice ==
    /\ ValidWindow /\ Len(Window.prices) = 1 => ret = Ratio(1, 1)
    /\ Evaluated("Percentile") /\ LeafWindow.tag = "Some"
                               /\ Len(LeafWindow.prices) = 1 =>
            ret.tag = Bool(Tree.value[1] >= Tree.value[2])

\* A Percentile leaf with value 1/2 over a one-price window that limit()
\* returned evaluated to false.
C15_Witness ==
    /\ Evaluated("Percentile")
    /\ LeafWindow.tag = "Some"
    /\ Len(LeafWindow.prices) = 1
    /\ Tree.value = <<1, 2>>
    /\ ret.tag = "false"

\* C16: percentile() signals an error and returns no value whenever the
\* window is empty or its relative_index is not an index of the window; it
\* never returns a percentile computed from a wrong or missing element.
C16_InvalidWindowFails ==
    pc = "percentile" =>
        /\ Len(Window.prices) = 0 => ret = Panic
        /\ ~(Window.now_index < Len(Window.prices)) => ret = Panic
        /\ ret.tag = "Ok" => Window.now_index + 1 \in DOMAIN Window.prices

\* percentile() failed on a one-price window whose relative_index points
\* past its end.
C16_Witness ==
    /\ pc = "percentile"
    /\ Len(Window.prices) = 1
    /\ Window.now_index >= 1
    /\ ret = Panic

HourOfDay == now % HoursPerDay

\* C17: Hours(min, max) is true exactly when min <= hour of day of ctx.now
\* <= max, both bounds included; the result depends neither on the prices
\* nor on now_index (any other series and index give the same result).
C17_HoursInclusive ==
    Evaluated("Hours") =>
        /\ ret.tag = Bool(Tree.min <= HourOfDay /\ HourOfDay <= Tree.max)
        /\ ret.tag = evaluate(Tree, <<0>>, 0, now)
        /\ ret.tag = evaluate(Tree, Reverse(prices), Len(prices) - 1 - now_index, now)

\* Hours(1, 3) evaluated to true at hour 3, in a context whose now_index is
\* not on that hour of day.
C17_Witness ==
    /\ Evaluated("Hours")
    /\ Tree = Hours(1, 3)
    /\ HourOfDay = Tree.max
    /\ now_index % HoursPerDay # HourOfDay
    /\ ret.tag = "true"

\* C18: Price(threshold) is true exactly when prices[now_index] <=
\* threshold; a price equal to the threshold satisfies it.
C18_PriceInclusive ==
    Evaluated("Price") =>
        /\ ret.tag = Bool(prices[now_index + 1] <= Tree.price)
        /\ prices[now_index + 1] = Tree.price => ret.tag = "true"

\* Price evaluated to true for a current price equal to the threshold, which
\* is neither the first nor the cheapest price of the series.
C18_Witness ==
    /\ Evaluated("Price")
    /\ prices[now_index + 1] = Tree.price
    /\ now_index > 0
    /\ prices[1] < Tree.price
    /\ ret.tag = "true"

-----------------------------------------------------------------------------
(* Wire form and expression routes *)

\* C19 as stated: writing a tree to its wire string and parsing that string
\* back yields a structurally equal tree, whatever the kind of its root.
C19_RoundTrip ==
    /\ pc = "serialized" => ret.tag = "Ok"
    /\ pc = "reparsed" => ret = Ok(Tree)

\* C19 amended: a tree whose root is And is written as the list of its
\* items, and parsing that text back yields a structurally equal tree; for
\* a root of any other kind String::try_from returns the error "Other than
\* And is not supported" and writes nothing.
C19_RoundTripAndRoot ==
    /\ pc = "serialized" =>
        IF Tree.kind = "And"
        THEN ret = Ok(TextOf(Tree.items))
        ELSE ret = Err("Other than And is not supported")
    /\ pc = "reparsed" => Tree.kind = "And" /\ ret = Ok(Tree)

\* An And of an hour test and a percentile test was written and parsed back
\* to the same tree.
C19_Witness ==
    /\ pc = "reparsed"
    /\ Tree.kind = "And"
    /\ Len(Tree.items) = 2
    /\ Tree.items[1].kind = "Hours"
    /\ Tree.items[2].kind = "Percentile"
    /\ Len(call.text.items) = 2
    /\ ret = Ok(Tree)

Malformed(text) == text \in MalformedTexts

\* C20: parsing a malformed expression never panics: Condition::try_from
\* returns an error, which the /exp handler answers with 400 "Expression is
\* not valid" and the builder handlers with an error message; a well-formed
\* list of conditions is returned as And of its items.
C20_MalformedIsError ==
    /\ pc = "parsed" =>
        /\ ret.tag \in {"Ok", "Err"}
        /\ Malformed(call.text) => ret.tag = "Err"
        /\ \A l \in ItemLists : call.text = TextOf(l) => ret = Ok(And(l))
    /\ pc = "exp" =>
        /\ Malformed(call.text) => ret = Response(400, "Expression is not valid")
        /\ \A l \in ItemLists :
            call.text = TextOf(l) /\ ret.tag = "Response" /\ ret.body = "json"
                => ret.input = And(l)
    /\ pc \in {"builder", "builder_update"} /\ call.exp.tag = "Some"
                                           /\ Malformed(call.exp.value) =>
        ret = Response(200, "Error parsing expression")

\* The /exp handler answered 400 to a JSON5 list holding an unknown kind of
\* condition.
C20_Witness ==
    /\ pc = "exp"
    /\ call.text = JArr(<<JObj("cost", JInt(2))>>)
    /\ ret.tag = "Response"
    /\ ret.status = 400

-----------------------------------------------------------------------------
(* Price cache and data loader *)

Returned(p, op) == tasks[p].st = "finished" /\ tasks[p].op = op
Got(p, d) == tasks[p].gets[d].res

\* C21: every context expression_context returns has 0 <= now_index <
\* len(prices), len(prices) a multiple of 24 and now_index mod 24 equal to
\* the hour of now, whichever of yesterday's and tomorrow's prices are
\* available; it returns no context exactly when today's prices are not
\* available.
C21_ContextInvariant ==
    \A p \in TaskIds :
        Returned(p, "expression_context") =>
            /\ tasks[p].out = None <=> Got(p, "today") = None
            /\ tasks[p].out # None =>
                LET ctx == tasks[p].out.value
                IN  /\ 0 <= ctx.now_index
                    /\ ctx.now_index < Len(ctx.prices)
                    /\ Len(ctx.prices) % HoursPerDay = 0
                    /\ ctx.now_index % HoursPerDay = ctx.now % HoursPerDay

\* expression_context returned a context built without yesterday's prices
\* and with tomorrow's.
C21_Witness ==
    \E p \in TaskIds :
        /\ Returned(p, "expression_context")
        /\ Got(p, "yesterday") = None
        /\ Got(p, "today") # None
        /\ Got(p, "tomorrow") # None
        /\ tasks[p].out # None
        /\ tasks[p].out.value.now_index = now % HoursPerDay

Call(p, d) == tasks[p].gets[d]
Others(d) == Dates \ {d}

\* C22: get_prices has get-or-fetch semantics: for a cached date it returns
\* the cached prices without fetching; for a date not cached it fetches, and
\* either stores the fetched prices under that date and returns them, or
\* (the fetch failed) returns None and leaves the cache unchanged; entries
\* are never removed, so a cached date stays cached.
C22_GetOrFetch ==
    [][\A p \in TaskIds, d \in Dates :
        /\ Call(p, d).st = "check" /\ Call(p, d)' # Call(p, d) =>
            /\ days' = days
            /\ IF contains_key(days, d)
               THEN Call(p, d)'.st = "done" /\ Call(p, d)'.res = days[d]
               ELSE Call(p, d)'.st = "fetching"
        /\ Call(p, d).st = "fetching" /\ Call(p, d)' # Call(p, d) =>
            /\ Call(p, d)'.st = "done"
            /\ \A e \in Others(d) : days'[e] = days[e]
            /\ IF Call(p, d)'.fetched = "Ok"
               THEN /\ Call(p, d)'.res = Some(QuarterPrices(d))
                    /\ days'[d] = Call(p, d)'.res
               ELSE /\ Call(p, d)'.res = None
                    /\ days' = days
        /\ contains_key(days, d) => contains_key(days', d)
    ]_vars

\* A get_prices call found its date in the cache, stored by an earlier
\* call, and returned the cached prices.
C22_Witness ==
    \E p \in TaskIds, d \in Dates :
        /\ Call(p, d).st = "done"
        /\ Call(p, d).hit
        /\ Call(p, d).res = days[d]
        /\ days[d] = Some(QuarterPrices(d))

Fetching(p, d) == Call(p, d).st = "fetching"
Missed(p, d) == Call(p, d).st = "done" /\ ~Call(p, d).hit
Fetched(p, d) == Missed(p, d) /\ Call(p, d).fetched = "Ok"

\* C23 as stated: once two calls that both missed the cache for the same date
\* have completed, the cache holds the date and both callers have prices.
C23_BothReceive ==
    \A p \in TaskIds, q \in TaskIds, d \in Dates :
        p # q /\ Missed(p, d) /\ Missed(q, d) =>
            /\ contains_key(days, d)
            /\ Call(p, d).res # None
            /\ Call(q, d).res # None

\* C23: two concurrent get_prices calls for the same date can both miss the
\* cache and both fetch it (nothing guards the span between the contains_key
\* check and the insert). Once both have completed, a caller whose own fetch
\* succeeded has received the prices and the cache holds that one entry for
\* the date; a caller whose own fetch failed has received None, also when
\* the other call has stored the date.
C23_DoubleFetch ==
    \A p \in TaskIds, q \in TaskIds, d \in Dates :
        p # q /\ Missed(p, d) /\ Missed(q, d) =>
            IF Call(p, d).fetched = "Ok"
            THEN /\ Call(p, d).res = Some(QuarterPrices(d))
                 /\ days[d] = Call(p, d).res
            ELSE Call(p, d).res = None

\* Two calls that were waiting for fetch_data of the same date at the same
\* time have both completed; one fetched and stored the prices, the fetch of
\* the other failed.
C23_Witness ==
    \E p \in TaskIds, q \in TaskIds, d \in Dates :
        /\ p # q /\ Fetched(p, d) /\ Missed(q, d)
        /\ Call(q, d).fetched = "Err" /\ Call(q, d).res = None
        /\ contains_key(days, d)

\* Both of two calls that missed the cache for the same date are waiting for
\* fetch_data.
C23_BothFetching ==
    \E p \in TaskIds, q \in TaskIds, d \in Dates :
        p # q /\ Fetching(p, d) /\ Fetching(q, d) /\ ~contains_key(days, d)

-----------------------------------------------------------------------------
(* Bands and windows of the evaluation core, continued *)

BandLength(from, to) == IF from < to THEN to - from ELSE HoursPerDay + to - from

\* Index of the latest hour `from` at or before idx.
BandStart(idx, from) == idx - ((idx - from) % HoursPerDay)

\* C25: for from in 0..23, to in 0..24 and from # to, find_time_range(idx,
\* from, to) returns Some((start, end)) iff the hour of day of idx lies in
\* the band [from, to) (across midnight when from > to) and that occurrence
\* of the band does not start before index 0; then start <= idx < end,
\* start mod 24 = from, end - start is the band's length and every index in
\* [start, end) resolves to the same pair; otherwise it returns None.
C25_BandOccurrence ==
    (pc = "find_time_range" /\ call.from \in 0..23 /\ call.to \in 0..24
            /\ call.from # call.to) =>
        LET start == BandStart(now_index, call.from)
            end == start + BandLength(call.from, call.to)
        IN  IF now_index < end /\ start >= 0
            THEN /\ ret = SomeRange(start, end)
                 /\ ret.start <= now_index /\ now_index < ret.end
                 /\ ret.start % HoursPerDay = call.from
                 /\ \A k \in ret.start..(ret.end - 1) :
                        find_time_range(k, call.from, call.to) = ret
            ELSE ret = None

\* A band across midnight is found from an hour after midnight: it started
\* the day before.
C25_Witness ==
    /\ pc = "find_time_range" /\ call.from > call.to /\ call.from < HoursPerDay
    /\ ret.tag = "Some"
    /\ ret.start \div HoursPerDay < now_index \div HoursPerDay

\* The hour lies in a band across midnight whose occurrence would start
\* before index 0.
C25_BeforeSeries ==
    /\ pc = "find_time_range" /\ call.from > call.to /\ call.from < HoursPerDay
    /\ now_index < call.to
    /\ ret = None

\* C26: whenever limit(range) returns a window, for every Range variant, its
\* relative index is an index of the window and the window's price there is
\* the price of the current hour, prices[now_index].
C26_PointerIsNow ==
    pc = "limit" /\ ret.tag = "Some" =>
        /\ ret.now_index < Len(ret.prices)
        /\ ret.prices[ret.now_index + 1] = prices[now_index + 1]

\* The same for the ranges other than PlusMinusHours.
C26_PointerIsNowElsewhere ==
    pc = "limit" /\ ret.tag = "Some" /\ call.range.kind # "PlusMinusHours" =>
        /\ ret.now_index < Len(ret.prices)
        /\ ret.prices[ret.now_index + 1] = prices[now_index + 1]

\* Hours of the band occurrence around the current hour at which
\* Cheap{hours: count, from, to} evaluates to true.
CheapHours(count, from, to) ==
    LET range == find_time_range(now_index, from, to)
    IN  {k \in range.start..(range.end - 1) :
            evaluate_cheap(prices, k, count, from, to) = "true"}

BandBegins(from, to) == find_time_range(now_index, from, to).start = now_index

\* C27: for a band whose occurrence lies inside the series, at most count of
\* its hours evaluate Cheap{hours: count, from, to} to true (none when
\* count = 0), and exactly min(count, band length) of them when the band's
\* prices are pairwise distinct.  Each occurrence is examined from its first
\* hour.
C27_AtMostCount ==
    (Evaluated("Cheap") /\ Band.tag = "Some" /\ BandBegins(Tree.from, Tree.to)) =>
        LET cheap == CheapHours(Tree.hours, Tree.from, Tree.to)
        IN  /\ ret.tag = Bool(now_index \in cheap)
            /\ Cardinality(cheap) <= Tree.hours
            /\ Distinct(Band.prices) =>
                Cardinality(cheap) = Min(Tree.hours, Len(Band.prices))

\* A Cheap condition was evaluated in a band of distinct prices that is
\* longer than count: count of its hours are cheap, the first one is not.
C27_Witness ==
    /\ Evaluated("Cheap") /\ Band.tag = "Some" /\ BandBegins(Tree.from, Tree.to)
    /\ Distinct(Band.prices)
    /\ 0 < Tree.hours /\ Tree.hours < Len(Band.prices)
    /\ Cardinality(CheapHours(Tree.hours, Tree.from, Tree.to)) = Tree.hours
    /\ ret.tag = "false"

-----------------------------------------------------------------------------
(* The day pages *)

Did(op) == pc = "returned" /\ call.op = op

\* Number of points of the price line a reply carries, if the reply is
\* readable chart data with such a line.
PricePoints(reply) ==
    LET hits == {k \in 1..Len(reply.data_line) :
                    reply.data_line[k].title = PriceLineTitle}
    IN  IF reply.sent /\ is_success(reply.status) /\ reply.json /\ hits # {}
        THEN Some(Len(reply.data_line[CHOOSE k \in hits : \A j \in hits : k <= j].point))
        ELSE None

\* C24: fetch_data returns Ok only when the price line of the reply holds
\* exactly 24 points and InvalidDataSize for every other number of points,
\* so a fetched day is 24 prices.
C24_OnePointPerHour ==
    Did("fetch_data") =>
        LET n == PricePoints(call.reply)
        IN  /\ ret.tag = "Ok" => n = Some(HoursPerDay) /\ Len(ret.value) = HoursPerDay
            /\ n # None /\ n # Some(HoursPerDay) => ret = Err("InvalidDataSize")

Starts(hours) == 0..(24 - hours)

\* C28: for 1 <= hours <= 24 and today's prices available,
\* find_cheapiest_hours returns the first start among 0..=24-hours whose run
\* of `hours` consecutive prices has the minimal sum.
C28_FirstCheapestRun ==
    (Did("find_cheapiest_hours") /\ call.hours \in 1..24 /\ call.day # None) =>
        /\ ret.tag = "Some"
        /\ ret.value \in Starts(call.hours)
        /\ \A s \in Starts(call.hours) :
            LET sum == RunSum(call.day.value, s, call.hours)
                best == RunSum(call.day.value, ret.value, call.hours)
            IN  best <= sum /\ (s < ret.value => best < sum)

\* C29: LimitedRange::percentile returns the rank of the price at `index` of
\* the window as given (the number of strictly smaller prices over
\* length - 1: 0 for the lowest, 1 for the highest price), whatever the
\* order of the window's prices.
C29_RankAsGiven ==
    (Did("limited_range_percentile") /\ Len(call.range.prices) >= 2
            /\ call.range.index < Len(call.range.prices)) =>
        LET ps == call.range.prices
        IN  ret = Ratio(Smaller(ps, ps[call.range.index + 1]), Len(ps) - 1)

\* C30: the graph page is rendered without arithmetic overflow for every
\* active_hour the handler passes, and the green bar is the bar of the
\* current hour when the shown date is today, and no bar otherwise.
C30_ActiveBar ==
    Did("fetch_data_handler") =>
        /\ ret # Panic
        /\ ret.status = 200 =>
            LET today == call.query = None \/ call.query = Some("today")
            IN  \A k \in 1..Len(ret.body.bars) :
                    ret.body.bars[k].fill = "green" <=> (today /\ k - 1 = call.hour)

=============================================================================
